---- MODULE Spec2Model ----
(***************************************************************************)
(* K-Factor Analytics dashboard (src/app.py).                              *)
(*                                                                         *)
(* The script runs top to bottom on every (re)run: load the CSV, pivot it  *)
(* per cohort day, compute the overall K-Factor and the money K-Factor,    *)
(* the per-weekday K-Factor, the regressions, the projection for the       *)
(* slider value and the anomaly tables.  An uncaught exception ends the    *)
(* run at the line that raised it.                                         *)
(*                                                                         *)
(* Two number models are used.                                             *)
(*  - "Real": an exact rational, or one of the IEEE specials NaN and       *)
(*    +/-Infinity.  It stands for the float64 values of the per-row and    *)
(*    statistical computations (pivot cells, per-row k_factor, means,      *)
(*    variance, least squares), whose outcome (order, sign, NaN/Inf        *)
(*    propagation) does not depend on the last bit.                        *)
(*  - "F64": IEEE-754 binary64 with round-to-nearest-even, bit exact, for  *)
(*    the overall chain of lines 77 and 112-122, where the rounding of     *)
(*    each operation is visible in the result.                             *)
(***************************************************************************)
EXTENDS Integers, Sequences, FiniteSets, TLC

(***************************************************************************)
(* Bounds of the model.                                                    *)
(***************************************************************************)
\* longest run of identical "steady" days that opens the file
MaxHistory == 8
\* number of further, arbitrary records that follow the steady days
MaxTail == 2
\* number of slider positions tried, counted from the slider's minimum
MaxSliderSteps == 2

(***************************************************************************)
(* Program constants.                                                      *)
(***************************************************************************)
\* range(1, 8): lags 1..7 are added as columns                  (line 324)
MaxLag == 7
\* nlargest(5, ...) / nsmallest(5, ...)                     (lines 386, 392)
TopN == 5
\* k_mean +/- 2*k_std                                       (lines 399, 400)
SigmaFactor == 2
\* st.slider(min_value=1000, ..., step=1000)                     (line 367)
SliderMin == 1000
SliderStep == 1000
\* rows of the renamed pivot: cohort + 2 values x 2 segments      (line 49)
PivotColumns == 5
\* float64 (numpy / Python float): bits of the significand
Precision == 53

(***************************************************************************)
(* Small helpers.                                                          *)
(***************************************************************************)
Max2(a, b) == IF a >= b THEN a ELSE b
Min2(a, b) == IF a <= b THEN a ELSE b
Abs(a) == IF a < 0 THEN -a ELSE a
Sign(a) == IF a < 0 THEN -1 ELSE IF a = 0 THEN 0 ELSE 1

RECURSIVE GCD(_, _)
GCD(a, b) == IF b = 0 THEN a ELSE GCD(b, a % b)

RECURSIVE Pow2(_)
Pow2(k) == IF k = 0 THEN 1 ELSE 2 * Pow2(k - 1)

Reverse(s) == [i \in 1..Len(s) |-> s[Len(s) + 1 - i]]

\* the elements of a finite set of integers, ascending
RECURSIVE SortedSeq(_)
SortedSeq(S) ==
    IF S = {} THEN <<>>
    ELSE LET m == CHOOSE x \in S : \A y \in S : x <= y
         IN <<m>> \o SortedSeq(S \ {m})

(***************************************************************************)
(* Real: float64 values up to rounding.                                    *)
(***************************************************************************)
NaN == [t |-> "nan", n |-> 0, d |-> 0]
PosInf == [t |-> "inf", n |-> 1, d |-> 0]
NegInf == [t |-> "inf", n |-> -1, d |-> 0]
\* a name that was never assigned
Unset == [t |-> "unset", n |-> 0, d |-> 0]

\* n/d in lowest terms, d # 0
Rat(n, d) ==
    LET g == GCD(Abs(n), Abs(d))
        s == IF d < 0 THEN -1 ELSE 1
    IN [t |-> "num", n |-> (s * n) \div g, d |-> (s * d) \div g]

RInt(i) == [t |-> "num", n |-> i, d |-> 1]
IsNum(x) == x.t = "num"
IsNaN(x) == x.t = "nan"
IsInf(x) == x.t = "inf"
RSign(x) == Sign(x.n)

RNeg(x) == IF IsNum(x) \/ IsInf(x) THEN [x EXCEPT !.n = -x.n] ELSE x

RAdd(x, y) ==
    IF IsNaN(x) \/ IsNaN(y) THEN NaN
    ELSE IF IsInf(x) /\ IsInf(y) THEN (IF x.n = y.n THEN x ELSE NaN)
    ELSE IF IsInf(x) THEN x
    ELSE IF IsInf(y) THEN y
    ELSE LET g == GCD(x.d, y.d)
         IN Rat(x.n * (y.d \div g) + y.n * (x.d \div g), (x.d \div g) * y.d)

RSub(x, y) == RAdd(x, RNeg(y))

RMul(x, y) ==
    IF IsNaN(x) \/ IsNaN(y) THEN NaN
    ELSE IF IsInf(x) \/ IsInf(y)
         THEN (IF RSign(x) * RSign(y) = 0 THEN NaN
               ELSE IF RSign(x) * RSign(y) > 0 THEN PosInf ELSE NegInf)
    ELSE LET g1 == GCD(Abs(x.n), y.d)
             g2 == GCD(Abs(y.n), x.d)
         IN Rat((x.n \div g1) * (y.n \div g2), (x.d \div g2) * (y.d \div g1))

\* float division: x/0 is +/-inf for x # 0 and NaN for x = 0, never an error
RDiv(x, y) ==
    IF IsNaN(x) \/ IsNaN(y) THEN NaN
    ELSE IF IsInf(x) THEN (IF IsInf(y) THEN NaN
                           ELSE IF RSign(x) * RSign(y) < 0 THEN NegInf ELSE PosInf)
    ELSE IF IsInf(y) THEN RInt(0)
    ELSE IF y.n = 0 THEN (IF x.n = 0 THEN NaN
                          ELSE IF x.n > 0 THEN PosInf ELSE NegInf)
    ELSE Rat(x.n * y.d, x.d * y.n)

\* x < y as floats compare: anything against NaN is false
RLt(x, y) ==
    IF IsNaN(x) \/ IsNaN(y) THEN FALSE
    ELSE IF IsInf(x) THEN x.n < 0 /\ ~(IsInf(y) /\ y.n < 0)
    ELSE IF IsInf(y) THEN y.n > 0
    ELSE RSub(x, y).n < 0

RECURSIVE RSumSeq(_)
RSumSeq(s) == IF s = <<>> THEN RInt(0) ELSE RAdd(Head(s), RSumSeq(Tail(s)))

RGt(x, y) == RLt(y, x)
RLe(x, y) == RLt(x, y) \/ (~IsNaN(x) /\ x = y)

(***************************************************************************)
(* Big naturals: little-endian sequences of limbs in base 2^LimbBits with  *)
(* no leading zero limb (zero is the empty sequence).  They carry the      *)
(* 53-bit significands of F64 and their 106-bit products.                  *)
(***************************************************************************)
Base == 32 * 1024
LimbBits == 3 * 5

BHd(a) == IF a = <<>> THEN 0 ELSE Head(a)
BTl(a) == IF a = <<>> THEN <<>> ELSE Tail(a)

RECURSIVE BNorm(_)
BNorm(a) ==
    IF a = <<>> THEN <<>>
    ELSE IF a[Len(a)] = 0 THEN BNorm(SubSeq(a, 1, Len(a) - 1))
    ELSE a

RECURSIVE BFromInt(_)
BFromInt(n) == IF n = 0 THEN <<>> ELSE <<n % Base>> \o BFromInt(n \div Base)

RECURSIVE BAddC(_, _, _)
BAddC(a, b, c) ==
    IF a = <<>> /\ b = <<>> THEN (IF c = 0 THEN <<>> ELSE <<c>>)
    ELSE LET x == BHd(a) + BHd(b) + c
         IN <<x % Base>> \o BAddC(BTl(a), BTl(b), x \div Base)

BAdd(a, b) == BAddC(a, b, 0)

\* a - b - c for a >= b + c, before the leading zero limbs are dropped
RECURSIVE BSubC(_, _, _)
BSubC(a, b, c) ==
    IF a = <<>> THEN <<>>
    ELSE LET x == BHd(a) - BHd(b) - c
         IN <<(x + Base) % Base>> \o BSubC(BTl(a), BTl(b), IF x < 0 THEN 1 ELSE 0)

BSub(a, b) == BNorm(BSubC(a, b, 0))

\* -1, 0, 1 as a < b, a = b, a > b, comparing limbs i..1 of equally long a, b
RECURSIVE BCmpAt(_, _, _)
BCmpAt(a, b, i) ==
    IF i = 0 THEN 0
    ELSE IF a[i] < b[i] THEN -1
    ELSE IF a[i] > b[i] THEN 1
    ELSE BCmpAt(a, b, i - 1)

BCmp(a, b) ==
    IF Len(a) < Len(b) THEN -1
    ELSE IF Len(a) > Len(b) THEN 1
    ELSE BCmpAt(a, b, Len(a))

\* a * k + c for 0 <= k, c < Base
RECURSIVE BMulSmallC(_, _, _)
BMulSmallC(a, k, c) ==
    IF a = <<>> THEN (IF c = 0 THEN <<>> ELSE <<c>>)
    ELSE LET x == Head(a) * k + c
         IN <<x % Base>> \o BMulSmallC(Tail(a), k, x \div Base)

BMulSmall(a, k) == BNorm(BMulSmallC(a, k, 0))

\* a * Base^n
BShiftLimbs(a, n) == IF a = <<>> THEN <<>> ELSE [i \in 1..n |-> 0] \o a

RECURSIVE BMul(_, _)
BMul(a, b) ==
    IF b = <<>> THEN <<>>
    ELSE BAdd(BMulSmall(a, Head(b)), BShiftLimbs(BMul(a, Tail(b)), 1))

\* a * 2^k
BShl(a, k) == BShiftLimbs(BMulSmall(a, Pow2(k % LimbBits)), k \div LimbBits)

\* floor(a / k) for 0 < k <= Base, limbs i..1, with r the remainder carried in
RECURSIVE BDivSmallAt(_, _, _, _)
BDivSmallAt(a, k, i, r) ==
    IF i = 0 THEN <<>>
    ELSE LET x == r * Base + a[i]
         IN BDivSmallAt(a, k, i - 1, x % k) \o <<x \div k>>

BDivSmall(a, k) == BNorm(BDivSmallAt(a, k, Len(a), 0))

\* floor(a / 2^k)
BShr(a, k) ==
    IF k \div LimbBits >= Len(a) THEN <<>>
    ELSE BDivSmall(SubSeq(a, (k \div LimbBits) + 1, Len(a)), Pow2(k % LimbBits))

BIsOdd(a) == a # <<>> /\ a[1] % 2 = 1

\* a mod 2^k # 0
BLowBits(a, k) == BShl(BShr(a, k), k) # a

RECURSIVE BitLen(_)
BitLen(n) == IF n = 0 THEN 0 ELSE 1 + BitLen(n \div 2)

BBitLen(a) == IF a = <<>> THEN 0 ELSE LimbBits * (Len(a) - 1) + BitLen(a[Len(a)])

(***************************************************************************)
(* F64: IEEE-754 binary64.  A finite value is (-1)^s * m * 2^e with m = 0  *)
(* (and e = 0) or 2^52 <= m < 2^53; every operation rounds its exact       *)
(* result to nearest, ties to even.  Exponents stay far from the overflow  *)
(* and underflow thresholds for the magnitudes of this model.              *)
(***************************************************************************)
FNaN == [t |-> "nan", s |-> 0, m |-> <<>>, e |-> 0]
FInf(s) == [t |-> "inf", s |-> s, m |-> <<>>, e |-> 0]
FZero(s) == [t |-> "num", s |-> s, m |-> <<>>, e |-> 0]
FUnset == [t |-> "unset", s |-> 0, m |-> <<>>, e |-> 0]

FIsNum(x) == x.t = "num"
FIsZero(x) == x.t = "num" /\ x.m = <<>>

\* the float nearest to (-1)^s * (n + f) * 2^e, where 0 <= f < 1 and f # 0 iff sticky;
\* sticky only comes with n of more than Precision bits
FRound(s, n, e, sticky) ==
    IF n = <<>> THEN FZero(s)
    ELSE LET len == BBitLen(n)
         IN IF len <= Precision
            THEN [t |-> "num", s |-> s, m |-> BShl(n, Precision - len),
                  e |-> e - (Precision - len)]
            ELSE LET sh == len - Precision
                     q == BShr(n, sh)
                     guard == BIsOdd(BShr(n, sh - 1))
                     rest == sticky \/ BLowBits(n, sh - 1)
                     up == guard /\ (rest \/ BIsOdd(q))
                     r == IF up THEN BAdd(q, <<1>>) ELSE q
                 IN IF BBitLen(r) > Precision
                    THEN [t |-> "num", s |-> s, m |-> BShr(r, 1), e |-> e + sh + 1]
                    ELSE [t |-> "num", s |-> s, m |-> r, e |-> e + sh]

\* int -> float64 (exact below 2^53)
FFromInt(i) == FRound(IF i < 0 THEN 1 ELSE 0, BFromInt(Abs(i)), 0, FALSE)

FXor(a, b) == (a + b) % 2

FMul(x, y) ==
    IF x.t = "nan" \/ y.t = "nan" THEN FNaN
    ELSE IF x.t = "inf" \/ y.t = "inf"
         THEN (IF FIsZero(x) \/ FIsZero(y) THEN FNaN ELSE FInf(FXor(x.s, y.s)))
    ELSE IF FIsZero(x) \/ FIsZero(y) THEN FZero(FXor(x.s, y.s))
    ELSE FRound(FXor(x.s, y.s), BMul(x.m, y.m), x.e + y.e, FALSE)

\* the leading LimbBits bits of a normalized significand, as an integer
FLead(m) == BHd(BShr(m, Precision - LimbBits))

\* x / y for finite nonzero x, y where the significand of y fits in LimbBits bits
\* (y is an integer below 2^15 times a power of two): long division by one limb.
\* The divisors of lines 77-122 are the integer totals, all of this form; the
\* operator has no value for any other divisor.
FDivShort(x, y) ==
    LET yl == CHOOSE v \in {FLead(y.m)} : ~BLowBits(y.m, Precision - LimbBits)
        n == BShl(x.m, LimbBits + 2)
        q == BDivSmall(n, yl)
    IN FRound(FXor(x.s, y.s), q,
              x.e - y.e - (LimbBits + 2) - (Precision - LimbBits),
              BMulSmall(q, yl) # n)

\* x / y: a zero divisor gives NaN (0/0) or an infinity, never an exception
FDiv(x, y) ==
    IF x.t = "nan" \/ y.t = "nan" THEN FNaN
    ELSE IF x.t = "inf" THEN (IF y.t = "inf" THEN FNaN ELSE FInf(FXor(x.s, y.s)))
    ELSE IF y.t = "inf" THEN FZero(FXor(x.s, y.s))
    ELSE IF FIsZero(y) THEN (IF FIsZero(x) THEN FNaN ELSE FInf(FXor(x.s, y.s)))
    ELSE IF FIsZero(x) THEN FZero(FXor(x.s, y.s))
    ELSE FDivShort(x, y)

\* x == y as floats compare
FEq(x, y) ==
    /\ x.t # "nan" /\ y.t # "nan"
    /\ \/ x = y
       \/ FIsZero(x) /\ FIsZero(y)

\* x > y as floats compare, for finite x, y >= 0 or NaN
FGtPos(x, y) ==
    /\ FIsNum(x) /\ FIsNum(y)
    /\ ~FIsZero(x)
    /\ \/ FIsZero(y)
       \/ x.e > y.e
       \/ x.e = y.e /\ BCmp(x.m, y.m) > 0

\* Real -> float64: the float nearest to the rational
FFromReal(x) ==
    IF IsNaN(x) THEN FNaN
    ELSE IF IsInf(x) THEN FInf(IF x.n < 0 THEN 1 ELSE 0)
    ELSE FDiv(FFromInt(x.n), FFromInt(x.d))

(***************************************************************************)
(* The input file test_data.csv.                                           *)
(***************************************************************************)
\* segment labels in the order sort_index puts them (plain string order)
Labels == <<"ORGANIC", "PAID", "UA">>
LabelSet == {Labels[i] : i \in 1..Len(Labels)}
LabelRank(l) == CHOOSE i \in 1..Len(Labels) : Labels[i] = l

\* a steady day: both segments present, K-Factor 5, equal ARPU 25/3
SteadyDay(c) ==
    << [cohort |-> c, ms |-> "ORGANIC", user_cnt |-> 15, gross |-> 125],
       [cohort |-> c, ms |-> "UA", user_cnt |-> 3, gross |-> 25] >>

RECURSIVE History(_)
History(h) == IF h = 0 THEN <<>> ELSE History(h - 1) \o SteadyDay(h)

\* lengths of the steady history: none, or one around the MaxLag + 1 days that
\* the regressions need
Histories == {0} \cup ((MaxLag - 1)..MaxHistory)

\* the free records fall on the last steady day or on the day after it
TailDates(h) == {Max2(h, 1), Max2(h, 1) + 1}

\* user count and gross of a free record
Sizes == {<<0, 25>>, <<3, 25>>, <<15, 125>>}

TailRecords(h) ==
    {[cohort |-> c, ms |-> l, user_cnt |-> z[1], gross |-> z[2]] :
        c \in TailDates(h), l \in LabelSet, z \in Sizes}

Tails(h) == UNION {[1..n -> TailRecords(h)] : n \in 0..MaxTail}

\* calendar of the day numbers: day 1 is a Monday, the 25th of a 30-day month
DayOfWeek(c) == (c - 1) % 7
MonthOf(c) == (c + 23) \div 30

VARIABLES
    test_data,      \* rows of the CSV file, in file order
    pc,             \* the statement the run is about to execute
    error,          \* the exception that ended the run, "" if none
    df,
    pivot,
    monthly,
    k_factor_monthly,
    total_ua, total_organic, total_gross_ua, total_gross_organic,
    k_factor,
    arpu_ua, arpu_organic,
    organic_from_ua,
    gross_from_organic_via_ua,
    k_factor_money,
    k_by_dow, weekend_k, weekday_k,
    data_clean,
    model_simple,
    X_lags,
    planned_ua,
    predicted_organic, predicted_gross_ua, predicted_gross_organic,
    top_k, low_k,
    k_mean, k_std,
    anomalies_high, anomalies_low

loadVars == <<df>>
pivotVars == <<pivot>>
monthlyVars == <<monthly, k_factor_monthly>>
totalVars == <<total_ua, total_organic, total_gross_ua, total_gross_organic>>
moneyVars == <<arpu_ua, arpu_organic, organic_from_ua, gross_from_organic_via_ua,
               k_factor_money>>
dowVars == <<k_by_dow, weekend_k, weekday_k>>
regVars == <<data_clean, model_simple, X_lags>>
projVars == <<planned_ua, predicted_organic, predicted_gross_ua,
              predicted_gross_organic>>
anomVars == <<top_k, low_k, k_mean, k_std, anomalies_high, anomalies_low>>

vars == <<test_data, pc, error, loadVars, pivotVars, monthlyVars, totalVars,
          k_factor, moneyVars, dowVars, regVars, projVars, anomVars>>

(***************************************************************************)
(* load_data                                                   lines 33-41 *)
(***************************************************************************)
LoadRow(r) ==
    [cohort |-> r.cohort, ms |-> r.ms, user_cnt |-> r.user_cnt, gross |-> r.gross,
     month |-> MonthOf(r.cohort), day_of_week |-> DayOfWeek(r.cohort)]

RECURSIVE SumSeq(_)
SumSeq(s) == IF s = <<>> THEN 0 ELSE Head(s) + SumSeq(Tail(s))

\* d[field].sum()
SumField(d, field) == SumSeq([i \in 1..Len(d) |-> d[i][field]])

LoadData ==
    /\ pc = "load"
    /\ df' = [i \in 1..Len(test_data) |-> LoadRow(test_data[i])]
    /\ pc' = "pivot"
    /\ UNCHANGED <<test_data, error, pivotVars, monthlyVars, totalVars, k_factor,
                   moneyVars, dowVars, regVars, projVars, anomVars>>

(***************************************************************************)
(* pivot_table, the positional renaming, per-day k_factor      lines 48-50 *)
(***************************************************************************)
LabelsIn(d) == {d[i].ms : i \in 1..Len(d)}
CohortsIn(d) == {d[i].cohort : i \in 1..Len(d)}

\* aggfunc='sum' over the records of one (cohort, ms) group; a group with no
\* record is a missing value
CellUsers(d, c, l) ==
    LET g == SelectSeq(d, LAMBDA r : r.cohort = c /\ r.ms = l)
    IN IF g = <<>> THEN NaN ELSE RInt(SumField(g, "user_cnt"))

CellGross(d, c, l) ==
    LET g == SelectSeq(d, LAMBDA r : r.cohort = c /\ r.ms = l)
    IN IF g = <<>> THEN NaN ELSE RInt(SumField(g, "gross"))

\* columns after reset_index: cohort, then (gross, label) and (user_cnt, label)
\* for every label that occurs, labels ascending
PivotColumnCount(d) == 1 + 2 * Cardinality(LabelsIn(d))

\* the labels that occur, ascending
SortedLabels(d) ==
    LET ranks == SortedSeq({LabelRank(l) : l \in LabelsIn(d)})
    IN [i \in 1..Len(ranks) |-> Labels[ranks[i]]]

\* pivot.columns = ['cohort','gross_ORGANIC','gross_UA','users_ORGANIC','users_UA']
\* names the columns by position: the first label becomes ORGANIC, the second UA
PivotRow(d, c) ==
    LET ls == SortedLabels(d)
        uo == CellUsers(d, c, ls[1])
        uu == CellUsers(d, c, ls[2])
    IN [cohort |-> c,
        gross_ORGANIC |-> CellGross(d, c, ls[1]),
        gross_UA |-> CellGross(d, c, ls[2]),
        users_ORGANIC |-> uo,
        users_UA |-> uu,
        k_factor |-> RDiv(uo, uu)]

PivotTable(d) ==
    LET cs == SortedSeq(CohortsIn(d))
    IN [i \in 1..Len(cs) |-> PivotRow(d, cs[i])]

Pivot ==
    /\ pc = "pivot"
    /\ IF PivotColumnCount(df) = PivotColumns
       THEN /\ pivot' = PivotTable(df)
            /\ pc' = "monthly"
            /\ error' = error
       ELSE /\ pivot' = pivot
            /\ pc' = "fault"
            /\ error' = "ValueError: Length mismatch (line 49)"
    /\ UNCHANGED <<test_data, loadVars, monthlyVars, totalVars, k_factor,
                   moneyVars, dowVars, regVars, projVars, anomVars>>

(***************************************************************************)
(* monthly aggregates                                          lines 53-56 *)
(***************************************************************************)
MonthsIn(d) == {d[i].month : i \in 1..Len(d)}

\* df.groupby(['month','ms']).agg(sum): one entry per group that occurs
MonthlyGroups(d) ==
    LET ms == SortedSeq(MonthsIn(d))
        ls == SortedLabels(d)
        keys == SelectSeq([k \in 1..(Len(ms) * Len(ls)) |->
                              [month |-> ms[((k - 1) \div Len(ls)) + 1],
                               ms |-> ls[((k - 1) % Len(ls)) + 1]]],
                           LAMBDA g : \E i \in 1..Len(d) :
                                         d[i].month = g.month /\ d[i].ms = g.ms)
    IN [k \in 1..Len(keys) |->
          LET g == SelectSeq(d, LAMBDA r : r.month = keys[k].month /\ r.ms = keys[k].ms)
          IN [month |-> keys[k].month, ms |-> keys[k].ms,
              user_cnt |-> SumField(g, "user_cnt"),
              gross |-> SumField(g, "gross")]]

\* monthly['user_cnt'][l] after unstack: NaN where the month has no such group
MonthlyUsers(m, month, l) ==
    IF \E k \in 1..Len(m) : m[k].month = month /\ m[k].ms = l
    THEN RInt(m[CHOOSE k \in 1..Len(m) : m[k].month = month /\ m[k].ms = l].user_cnt)
    ELSE NaN

KFactorMonthly(m) ==
    LET ms == SortedSeq({m[k].month : k \in 1..Len(m)})
    IN [i \in 1..Len(ms) |->
          [month |-> ms[i],
           k_factor |-> RDiv(MonthlyUsers(m, ms[i], "ORGANIC"),
                             MonthlyUsers(m, ms[i], "UA"))]]

Monthly ==
    /\ pc = "monthly"
    /\ monthly' = MonthlyGroups(df)
    /\ IF "UA" \notin LabelsIn(df)
       THEN /\ pc' = "fault"
            /\ error' = "KeyError: 'UA' (line 54)"
            /\ k_factor_monthly' = k_factor_monthly
       ELSE IF "ORGANIC" \notin LabelsIn(df)
       THEN /\ pc' = "fault"
            /\ error' = "KeyError: 'ORGANIC' (line 55)"
            /\ k_factor_monthly' = k_factor_monthly
       ELSE /\ pc' = "totals"
            /\ error' = error
            /\ k_factor_monthly' = KFactorMonthly(monthly')
    /\ UNCHANGED <<test_data, loadVars, pivotVars, totalVars, k_factor,
                   moneyVars, dowVars, regVars, projVars, anomVars>>

(***************************************************************************)
(* overall totals                                              lines 59-62 *)
(***************************************************************************)
\* Series.sum(): missing values are skipped
ColumnSum(p, col) ==
    SumSeq([i \in 1..Len(p) |-> IF IsNum(p[i][col]) THEN p[i][col].n ELSE 0])

Totals ==
    /\ pc = "totals"
    /\ total_ua' = ColumnSum(pivot, "users_UA")
    /\ total_organic' = ColumnSum(pivot, "users_ORGANIC")
    /\ total_gross_ua' = ColumnSum(pivot, "gross_UA")
    /\ total_gross_organic' = ColumnSum(pivot, "gross_ORGANIC")
    /\ pc' = "kfactor"
    /\ UNCHANGED <<test_data, error, loadVars, pivotVars, monthlyVars, k_factor,
                   moneyVars, dowVars, regVars, projVars, anomVars>>

(***************************************************************************)
(* The user K-Factor                                               line 77 *)
(***************************************************************************)
\* Series.mean(): missing values are skipped, infinities are not
KMean(p) ==
    LET valid == SelectSeq(p, LAMBDA r : ~IsNaN(r.k_factor))
    IN RDiv(RSumSeq([i \in 1..Len(valid) |-> valid[i].k_factor]), RInt(Len(valid)))

\* the K-Factor as the mean of the per-day ratios instead of the ratio of the sums
MeanOfDailyRatios(t_organic, t_ua) == FFromReal(KMean(pivot))

\* total_organic / total_ua: the ratio of the two overall sums
VolumeKFactor(t_organic, t_ua) == FDiv(FFromInt(t_organic), FFromInt(t_ua))

KFactor ==
    /\ pc = "kfactor"
    /\ k_factor' = VolumeKFactor(total_organic, total_ua)
    /\ pc' = "money"
    /\ UNCHANGED <<test_data, error, loadVars, pivotVars, monthlyVars, totalVars,
                   moneyVars, dowVars, regVars, projVars, anomVars>>

(***************************************************************************)
(* The money K-Factor                                        lines 112-122 *)
(***************************************************************************)
Arpu(t_gross, t_users) == FDiv(FFromInt(t_gross), FFromInt(t_users))

\* the attribution step without the K-Factor: every UA user counted as organic
OrganicFromUAWithoutK(t_ua, k) == FFromInt(t_ua)

\* organic_from_ua = total_ua * k_factor
OrganicFromUA(t_ua, k) == FMul(FFromInt(t_ua), k)

\* gross_from_organic_via_ua = organic_from_ua * arpu_organic
GrossFromOrganic(from_ua, a_organic) == FMul(from_ua, a_organic)

\* k_factor_money = gross_from_organic_via_ua / total_gross_ua
MoneyKFactor(g, t_gross_ua) == FDiv(g, FFromInt(t_gross_ua))

Money ==
    /\ pc = "money"
    /\ arpu_ua' = Arpu(total_gross_ua, total_ua)
    /\ arpu_organic' = Arpu(total_gross_organic, total_organic)
    /\ organic_from_ua' = OrganicFromUA(total_ua, k_factor)
    /\ gross_from_organic_via_ua' = GrossFromOrganic(organic_from_ua', arpu_organic')
    /\ k_factor_money' = MoneyKFactor(gross_from_organic_via_ua', total_gross_ua)
    /\ pc' = "weekday"
    /\ UNCHANGED <<test_data, error, loadVars, pivotVars, monthlyVars, totalVars,
                   k_factor, dowVars, regVars, projVars, anomVars>>

(***************************************************************************)
(* Tab 2: K-Factor by day of week                            lines 228-243 *)
(***************************************************************************)
\* np.mean: NaN and Inf are not skipped
NpMean(s) == RDiv(RSumSeq(s), RInt(Len(s)))

\* org/ua of weekday w: sums over the raw rows, 0 for a weekday with no row
KByDow(d, w) ==
    LET ua == SumField(SelectSeq(d, LAMBDA r : r.day_of_week = w /\ r.ms = "UA"),
                       "user_cnt")
        org == SumField(SelectSeq(d, LAMBDA r : r.day_of_week = w /\ r.ms = "ORGANIC"),
                        "user_cnt")
    IN RDiv(RInt(org), RInt(ua))

Weekday ==
    /\ pc = "weekday"
    /\ k_by_dow' = [i \in 1..7 |-> KByDow(df, i - 1)]
    /\ weekend_k' = NpMean(SubSeq(k_by_dow', 6, 7))
    /\ weekday_k' = NpMean(SubSeq(k_by_dow', 1, 5))
    /\ pc' = "regression"
    /\ UNCHANGED <<test_data, error, loadVars, pivotVars, monthlyVars, totalVars,
                   k_factor, moneyVars, regVars, projVars, anomVars>>

(***************************************************************************)
(* Tab 5: regressions                                        lines 323-335 *)
(***************************************************************************)
\* data['UA'].shift(lag) at 0-based row i
Shifted(p, i, lag) == IF i - lag >= 0 THEN p[i - lag + 1].users_UA ELSE NaN

\* the frame `data`: UA, Organic and UA_lag_1 .. UA_lag_7, one row per pivot row
DataRow(p, i) ==
    [index |-> i,
     UA |-> p[i + 1].users_UA,
     Organic |-> p[i + 1].users_ORGANIC,
     UA_lag |-> [lag \in 1..MaxLag |-> Shifted(p, i, lag)]]

\* dropna(): a row stays only if none of its nine values is missing
Complete(r) ==
    /\ ~IsNaN(r.UA)
    /\ ~IsNaN(r.Organic)
    /\ \A lag \in 1..MaxLag : ~IsNaN(r.UA_lag[lag])

DataClean(p) == SelectSeq([i \in 1..Len(p) |-> DataRow(p, i - 1)], Complete)

\* X_lags = data_clean[['UA','UA_lag_1','UA_lag_2','UA_lag_3','UA_lag_7']], with y
LagFeatures(r) ==
    [index |-> r.index,
     x |-> <<r.UA, r.UA_lag[1], r.UA_lag[2], r.UA_lag[3], r.UA_lag[7]>>,
     y |-> r.Organic]

\* LinearRegression().fit(X_simple, y): least squares with intercept on the
\* centred sample; a constant UA column gives coefficient 0 (minimum norm)
FitSimple(dc) ==
    LET n == Len(dc)
        sx == SumSeq([i \in 1..n |-> dc[i].UA.n])
        sy == SumSeq([i \in 1..n |-> dc[i].Organic.n])
        sxx == SumSeq([i \in 1..n |-> dc[i].UA.n * dc[i].UA.n])
        sxy == SumSeq([i \in 1..n |-> dc[i].UA.n * dc[i].Organic.n])
        den == n * sxx - sx * sx
        coef == IF den = 0 THEN RInt(0) ELSE Rat(n * sxy - sx * sy, den)
    IN [coef |-> coef,
        intercept |-> RSub(Rat(sy, n), RMul(coef, Rat(sx, n)))]

Regression ==
    /\ pc = "regression"
    /\ data_clean' = DataClean(pivot)
    /\ IF data_clean' = <<>>
       THEN /\ pc' = "fault"
            /\ error' = "ValueError: Found array with 0 sample(s) (line 331)"
            /\ UNCHANGED <<model_simple, X_lags>>
       ELSE /\ model_simple' = FitSimple(data_clean')
            /\ X_lags' = [i \in 1..Len(data_clean') |-> LagFeatures(data_clean'[i])]
            /\ pc' = "projection"
            /\ error' = error
    /\ UNCHANGED <<test_data, loadVars, pivotVars, monthlyVars, totalVars, k_factor,
                   moneyVars, dowVars, projVars, anomVars>>

(***************************************************************************)
(* Projection                                                lines 367-371 *)
(***************************************************************************)
\* the slider positions tried
SliderValues == {SliderMin + i * SliderStep : i \in 0..(MaxSliderSteps - 1)}

\* model_simple.coef_[0] * planned_ua + model_simple.intercept_
PredictedOrganic(m, planned) == RAdd(RMul(m.coef, RInt(planned)), m.intercept)

Projection ==
    /\ pc = "projection"
    /\ \E v \in SliderValues :
          /\ planned_ua' = v
          /\ predicted_organic' = PredictedOrganic(model_simple, v)
          /\ predicted_gross_ua' = FMul(FFromInt(v), arpu_ua)
          /\ predicted_gross_organic' = FMul(FFromReal(predicted_organic'), arpu_organic)
    /\ pc' = "anomalies"
    /\ UNCHANGED <<test_data, error, loadVars, pivotVars, monthlyVars, totalVars,
                   k_factor, moneyVars, dowVars, regVars, anomVars>>

(***************************************************************************)
(* Tab 6: anomalies                                          lines 386-400 *)
(***************************************************************************)
Take(s, n) == SubSeq(s, 1, Min2(n, Len(s)))

\* s with row r put behind the last row that does not come after r: the
\* insertion step of a stable sort, Before(a, b) meaning a sorts strictly first
RECURSIVE InsertRow(_, _, _)
InsertRow(s, r, desc) ==
    IF s = <<>> THEN <<r>>
    ELSE IF (IF desc THEN RGt(r.k_factor, Head(s).k_factor)
                     ELSE RLt(r.k_factor, Head(s).k_factor))
         THEN <<r>> \o s
         ELSE <<Head(s)>> \o InsertRow(Tail(s), r, desc)

\* rows 1..i of p in stable order of k_factor (equal keys keep the order of p)
RECURSIVE StableSort(_, _, _)
StableSort(p, i, desc) ==
    IF i = 0 THEN <<>> ELSE InsertRow(StableSort(p, i - 1, desc), p[i], desc)

\* DataFrame.nlargest(n, 'k_factor') / nsmallest, keep='first': the rows with a
\* k_factor in stable order, then the rows whose k_factor is missing, cut to n.
\* (With n >= len(pivot) pandas sorts with an unstable quicksort instead; the
\* anomalies tab is only reached with len(pivot) > MaxLag >= n.)
SelectN(p, n, desc) ==
    LET valid == SelectSeq(p, LAMBDA r : ~IsNaN(r.k_factor))
        missing == SelectSeq(p, LAMBDA r : IsNaN(r.k_factor))
    IN Take(StableSort(valid, Len(valid), desc) \o missing, n)

\* Series.std() squared: the sample variance (ddof = 1) of the values present
KVar(p) ==
    LET valid == SelectSeq(p, LAMBDA r : ~IsNaN(r.k_factor))
        mean == KMean(p)
        dev == [i \in 1..Len(valid) |-> RSub(valid[i].k_factor, mean)]
    IN IF Len(valid) <= 1 THEN NaN
       ELSE RDiv(RSumSeq([i \in 1..Len(dev) |-> RMul(dev[i], dev[i])]),
                 RInt(Len(valid) - 1))

\* k > mean + 2*std, with std given by its square
AboveBand(k, mean, var) ==
    LET dev == RSub(k, mean)
    IN /\ IsNum(dev) /\ IsNum(var)
       /\ dev.n > 0
       /\ RGt(RMul(dev, dev), RMul(RInt(SigmaFactor * SigmaFactor), var))

\* k < mean - 2*std
BelowBand(k, mean, var) ==
    LET dev == RSub(mean, k)
    IN /\ IsNum(dev) /\ IsNum(var)
       /\ dev.n > 0
       /\ RGt(RMul(dev, dev), RMul(RInt(SigmaFactor * SigmaFactor), var))

Anomalies ==
    /\ pc = "anomalies"
    /\ top_k' = SelectN(pivot, TopN, TRUE)
    /\ low_k' = SelectN(pivot, TopN, FALSE)
    /\ k_mean' = KMean(pivot)
    /\ k_std' = [sqrt_of |-> KVar(pivot)]
    /\ anomalies_high' =
          SelectSeq(pivot, LAMBDA r : AboveBand(r.k_factor, k_mean', k_std'.sqrt_of))
    /\ anomalies_low' =
          SelectSeq(pivot, LAMBDA r : BelowBand(r.k_factor, k_mean', k_std'.sqrt_of))
    /\ pc' = "done"
    /\ UNCHANGED <<test_data, error, loadVars, pivotVars, monthlyVars, totalVars,
                   k_factor, moneyVars, dowVars, regVars, projVars>>

(***************************************************************************)
(* Specification.                                                          *)
(***************************************************************************)
Init ==
    /\ \E h \in Histories : \E tl \in Tails(h) : test_data = History(h) \o tl
    /\ pc = "load"
    /\ error = ""
    /\ df = <<>>
    /\ pivot = <<>>
    /\ monthly = <<>>
    /\ k_factor_monthly = <<>>
    /\ total_ua = 0
    /\ total_organic = 0
    /\ total_gross_ua = 0
    /\ total_gross_organic = 0
    /\ k_factor = FUnset
    /\ arpu_ua = FUnset
    /\ arpu_organic = FUnset
    /\ organic_from_ua = FUnset
    /\ gross_from_organic_via_ua = FUnset
    /\ k_factor_money = FUnset
    /\ k_by_dow = <<>>
    /\ weekend_k = Unset
    /\ weekday_k = Unset
    /\ data_clean = <<>>
    /\ model_simple = [coef |-> Unset, intercept |-> Unset]
    /\ X_lags = <<>>
    /\ planned_ua = 0
    /\ predicted_organic = Unset
    /\ predicted_gross_ua = FUnset
    /\ predicted_gross_organic = FUnset
    /\ top_k = <<>>
    /\ low_k = <<>>
    /\ k_mean = Unset
    /\ k_std = [sqrt_of |-> Unset]
    /\ anomalies_high = <<>>
    /\ anomalies_low = <<>>

Next ==
    \/ LoadData
    \/ Pivot
    \/ Monthly
    \/ Totals
    \/ KFactor
    \/ Money
    \/ Weekday
    \/ Regression
    \/ Projection
    \/ Anomalies

Spec == Init /\ [][Next]_vars

(***************************************************************************)
(* Properties.  The reference values below are computed from the file      *)
(* test_data itself, record by record, not from the frames the script      *)
(* derives from it.                                                        *)
(***************************************************************************)
Segments == {"ORGANIC", "UA"}

\* the records of the file that belong to date c and segment l
FileRecords(c, l) == {i \in 1..Len(test_data) : test_data[i].cohort = c /\ test_data[i].ms = l}

RECURSIVE SumOver(_, _)
SumOver(S, field) ==
    IF S = {} THEN 0
    ELSE LET i == CHOOSE j \in S : TRUE
         IN test_data[i][field] + SumOver(S \ {i}, field)

\* users / gross of segment l over the whole file, and on date c
FileTotal(l, field) == SumOver({i \in 1..Len(test_data) : test_data[i].ms = l}, field)
FileCell(c, l, field) == SumOver(FileRecords(c, l), field)
FileDates == {test_data[i].cohort : i \in 1..Len(test_data)}
ValidLabels == \A i \in 1..Len(test_data) : test_data[i].ms \in Segments

\* the file with its first two records exchanged, and with its first record
\* moved to the end: every reordering of a file is a sequence of these two
SwappedFirst(f) == IF Len(f) < 2 THEN f ELSE <<f[2], f[1]>> \o SubSeq(f, 3, Len(f))
Rotated(f) == IF f = <<>> THEN f ELSE Tail(f) \o <<Head(f)>>

\* lines 33-77 applied to a file f
KFactorOf(f) ==
    LET p == PivotTable([i \in 1..Len(f) |-> LoadRow(f[i])])
    IN VolumeKFactor(ColumnSum(p, "users_ORGANIC"),
                     ColumnSum(p, "users_UA"))

\* C1: once k_factor has been computed from cohort rows with a positive UA
\* total, it is the float64 quotient (sum of all organic users) / (sum of all UA
\* users), and the file with its first two records exchanged, with its first
\* record moved to the end, or reversed, gives the same value.
C1_KFactorIsRatioOfSums ==
    (pc = "money" /\ FileTotal("UA", "user_cnt") > 0) =>
        /\ k_factor = FDiv(FFromInt(FileTotal("ORGANIC", "user_cnt")),
                           FFromInt(FileTotal("UA", "user_cnt")))
        /\ KFactorOf(SwappedFirst(test_data)) = k_factor
        /\ KFactorOf(Rotated(test_data)) = k_factor
        /\ KFactorOf(Reverse(test_data)) = k_factor

\* k_factor computed from days with different ratios, one of them a day with a
\* duplicated or missing segment
C1_Witness ==
    /\ pc = "money"
    /\ FileTotal("UA", "user_cnt") > 0
    /\ \E i, j \in 1..Len(pivot) :
          /\ IsNum(pivot[i].k_factor) /\ IsNum(pivot[j].k_factor)
          /\ pivot[i].k_factor # pivot[j].k_factor
    /\ ~FEq(k_factor, FFromReal(KMean(pivot)))

\* C2: a cohort day or weekday bucket with zero UA users has the undefined
\* marker (NaN) as k_factor, never a number and never an infinity, and the
\* division raises no fault.
C2_ZeroUAIsUndefined ==
    /\ \A i \in 1..Len(pivot) :
          (IsNum(pivot[i].users_UA) /\ pivot[i].users_UA.n = 0) => IsNaN(pivot[i].k_factor)
    /\ \A w \in 1..Len(k_by_dow) :
          SumOver({i \in 1..Len(test_data) :
                      test_data[i].ms = "UA" /\ DayOfWeek(test_data[i].cohort) = w - 1},
                  "user_cnt") = 0
          => IsNaN(k_by_dow[w])

\* C3: for a file with the two segments, the cohort table has exactly one row
\* per date of the file, every field is the sum over all records of that date
\* and segment (duplicates added), a segment with no record on the date has 0,
\* and the overall totals are the sums over the whole file.
C3_AggregateSumsAndZeroFills ==
    (ValidLabels /\ pivot # <<>>) =>
        /\ Len(pivot) = Cardinality(FileDates)
        /\ \A i \in 1..Len(pivot) :
              /\ pivot[i].cohort \in FileDates
              /\ \A j \in 1..Len(pivot) : pivot[j].cohort = pivot[i].cohort => j = i
              /\ pivot[i].users_ORGANIC = RInt(FileCell(pivot[i].cohort, "ORGANIC", "user_cnt"))
              /\ pivot[i].users_UA = RInt(FileCell(pivot[i].cohort, "UA", "user_cnt"))
              /\ pivot[i].gross_ORGANIC = RInt(FileCell(pivot[i].cohort, "ORGANIC", "gross"))
              /\ pivot[i].gross_UA = RInt(FileCell(pivot[i].cohort, "UA", "gross"))
        /\ pc \in {"kfactor", "money"} =>
              /\ total_ua = FileTotal("UA", "user_cnt")
              /\ total_organic = FileTotal("ORGANIC", "user_cnt")
              /\ total_gross_ua = FileTotal("UA", "gross")
              /\ total_gross_organic = FileTotal("ORGANIC", "gross")

\* |x - y| <= 2^-bits * |y| for two finite floats of the same sign
FWithin(x, y, bits) ==
    /\ FIsNum(x) /\ FIsNum(y)
    /\ \/ FIsZero(x) /\ FIsZero(y)
       \/ /\ ~FIsZero(x) /\ ~FIsZero(y) /\ x.s = y.s
          /\ LET e0 == Min2(x.e, y.e)
                 a == BShl(x.m, x.e - e0)
                 b == BShl(y.m, y.e - e0)
                 d == IF BCmp(a, b) >= 0 THEN BSub(a, b) ELSE BSub(b, a)
             IN BCmp(BShl(d, bits), b) <= 0

\* the money K-Factor has been computed from positive totals with equal ARPU
EqualArpuCase ==
    /\ pc = "weekday"
    /\ total_ua > 0 /\ total_organic > 0 /\ total_gross_ua > 0
    /\ FEq(arpu_organic, arpu_ua)

\* C4 as stated: with positive UA users, organic users and UA gross and
\* arpu_organic = arpu_ua, k_factor_money equals k_factor.
C4_MoneyEqualsVolume == EqualArpuCase => FEq(k_factor_money, k_factor)

\* C4 amended: under the same conditions k_factor_money equals k_factor up to
\* the rounding of the four float operations: the relative difference is at
\* most 2^-50.
C4_MoneyEqualsVolumeUpToRounding == EqualArpuCase => FWithin(k_factor_money, k_factor, 50)

\* equal ARPU, and the chain has rounded away from k_factor
C4_Witness == EqualArpuCase /\ ~FEq(k_factor_money, k_factor)

RegressionFault ==
    pc = "fault" /\ error = "ValueError: Found array with 0 sample(s) (line 331)"

\* C5: with fewer than 8 periods in the cohort table the regression step does
\* not stop the run with an unhandled fault, and fits no model.
C5_ShortSeriesIsHandled ==
    (pivot # <<>> /\ Len(pivot) < MaxLag + 1) =>
        /\ ~RegressionFault
        /\ model_simple.coef = Unset
        /\ X_lags = <<>>

\* rows whose k_factor is defined: both segments present and UA users positive
DefinedRows(p) ==
    SelectSeq(p, LAMBDA r : IsNum(r.users_UA) /\ r.users_UA.n > 0 /\ IsNum(r.users_ORGANIC))

\* C6: mean and standard deviation of k_factor are those of the rows with a
\* defined k_factor, the high and low sets are the rows among them outside
\* mean +- 2 std, and no row with zero UA users is in either set.
C6_OutliersIgnoreUndefinedRows ==
    pc = "done" =>
        LET rows == DefinedRows(pivot)
            mean == KMean(rows)
            var == KVar(rows)
        IN /\ k_mean = mean
           /\ k_std.sqrt_of = var
           /\ anomalies_high = SelectSeq(rows, LAMBDA r : AboveBand(r.k_factor, mean, var))
           /\ anomalies_low = SelectSeq(rows, LAMBDA r : BelowBand(r.k_factor, mean, var))

\* C7: after the projection predicted_organic is the model value when that is
\* non-negative and 0 otherwise, and predicted_gross_organic is the clipped
\* value times arpu_organic.
C7_PredictionIsClipped ==
    pc \in {"anomalies", "done"} =>
        LET raw == PredictedOrganic(model_simple, planned_ua)
            clipped == IF RLt(raw, RInt(0)) THEN RInt(0) ELSE raw
        IN /\ predicted_organic = clipped
           /\ RLe(RInt(0), predicted_organic)
           /\ predicted_gross_organic = FMul(FFromReal(clipped), arpu_organic)

\* C8: a file with a segment label other than ORGANIC and UA is rejected when
\* it is loaded: no frame is built from it and no cohort row counts its users.
C8_ForeignLabelFailsAtLoad ==
    ~ValidLabels => (df = <<>> /\ pivot = <<>>)

\* a sorts before b in a ranking by k_factor (descending or ascending), the
\* earlier date first among equal k_factor, missing k_factor last
RankedBefore(a, b, desc) ==
    IF IsNaN(b.k_factor) THEN ~IsNaN(a.k_factor) \/ a.cohort < b.cohort
    ELSE IF IsNaN(a.k_factor) THEN FALSE
    ELSE \/ IF desc THEN RGt(a.k_factor, b.k_factor) ELSE RLt(a.k_factor, b.k_factor)
         \/ a.k_factor = b.k_factor /\ a.cohort < b.cohort

\* t is the ranking of the first min(TopN, n) rows of p
IsRanking(t, p, desc) ==
    /\ Len(t) = Min2(TopN, Len(p))
    /\ \A i \in 1..Len(t) : \E j \in 1..Len(p) : t[i] = p[j]
    /\ \A i, j \in 1..Len(t) : i < j => RankedBefore(t[i], t[j], desc)
    /\ \A j \in 1..Len(p) :
          (\A i \in 1..Len(t) : t[i] # p[j]) =>
              \A i \in 1..Len(t) : RankedBefore(t[i], p[j], desc)

\* C9: once the cohort table of n rows exists, the run ends with top_k the
\* min(5, n) largest and low_k the min(5, n) smallest k_factor rows, ranked,
\* earlier date first among equals, also when there are fewer than 5 rows.
C9_RankExtremes ==
    (ValidLabels /\ pivot # <<>> /\ pc \in {"done", "fault"}) =>
        /\ pc = "done"
        /\ IsRanking(top_k, pivot, TRUE)
        /\ IsRanking(low_k, pivot, FALSE)

\* C10: for a cohort table of n >= 8 dates the regression step fits on exactly
\* the indices 7..n-1, each with features [UA(t), UA(t-1), UA(t-2), UA(t-3),
\* UA(t-7)] and target organic(t).
C10_FitSetIsFullLagHistory ==
    (Len(pivot) >= MaxLag + 1 /\ (pc = "projection" \/ RegressionFault)) =>
        /\ Len(X_lags) = Len(pivot) - MaxLag
        /\ \A i \in 1..Len(X_lags) :
              LET t == MaxLag + i - 1
              IN /\ X_lags[i].index = t
                 /\ X_lags[i].x = <<pivot[t + 1].users_UA, pivot[t].users_UA,
                                    pivot[t - 1].users_UA, pivot[t - 2].users_UA,
                                    pivot[t - 6].users_UA>>
                 /\ X_lags[i].y = pivot[t + 1].users_ORGANIC

====
